---------------------------- MODULE Spec2Model ----------------------------
(***************************************************************************)
(* A model of unpoller's webserver handlers (handleConfig, getPlugins,     *)
(* handleOutput, handleInput) and of the poller's configuration pipeline   *)
(* (ParseConfigs, LoadPlugins, parseInterface, parseInputs, parseOutputs). *)
(*                                                                         *)
(* Four specifications share the variables:                                *)
(*   Spec        either one run of ParseConfigs at startup, or several     *)
(*               concurrent plugin-scoped requests and the polling writer  *)
(*               on the containers' reader/writer locks;                   *)
(*   SpecServe   one request at a time over the whole request space        *)
(*               (every route, sub-route and value) with the writer;       *)
(*   SpecPlugins handleConfig over every catalog and build manifest;       *)
(*   SpecConfig  one run of ParseConfigs over every bounded environment.   *)
(***************************************************************************)
EXTENDS Integers, Sequences, FiniteSets, TLC

(***************************************************************************)
(* Bounds of the model.                                                    *)
(***************************************************************************)
\* Concurrent request handlers (one per HTTP connection).
NumHandlers == 2
\* Distinct payloads the polling writer may store (payload 0 is the state
\* of a container right after registration).
MaxPayload == 2
\* Longest build-manifest dependency list.
MaxDeps == 2
\* Longest list of declared plugin module paths (poller.plugins).
MaxPlugins == 2

Handlers == 1..NumHandlers
Payloads == 1..MaxPayload

(***************************************************************************)
(* The web server's plugin catalog and the data a container may hold.      *)
(***************************************************************************)
\* Registered plugin names, per role; names are unique per role only.
InputNames == {"a"}
OutputNames == {"b"}
\* Names a request may carry: each is registered in one role and not in the
\* other, so every name both hits and misses a lookup.
ReqNames == {"a", "b"}
\* Sub-routes a request may carry: the documented ones, none, and one that
\* is not documented.
ReqSubs ==
    {"", "config", "eventgroups", "events", "counters", "sites", "devices",
     "clients", "bogus"}
\* Values (keys) a request may carry: none, keys the writer stores, and one
\* that is never stored.
ReqVals == {"", "k1", "polls", "zz"}

\* A container is identified by its role and name.
Containers ==
    {[role |-> "input", name |-> n] : n \in InputNames}
        \cup {[role |-> "output", name |-> n] : n \in OutputNames}

NoContainer == [role |-> "none", name |-> ""]

\* The empty mapping (a Go map with no keys).
EmptyMap == [k \in {} |-> 0]

\* Config, Events, Counter, Sites, Devices and Clients as stored by write p.
ConfigOf(p) == [interval |-> p]

EventsOf(p) ==
    IF p = 0 THEN EmptyMap
    ELSE IF p % 2 = 1 THEN [k \in {"k1"} |-> << >>]
    ELSE [k \in {"k1", "k2"} |-> IF k = "k1" THEN <<p>> ELSE <<p, p + 1>>]

CounterOf(p) ==
    IF p = 0 THEN EmptyMap
    ELSE IF p % 2 = 1 THEN [k \in {"polls"} |-> p + 2]
    ELSE [k \in {"polls", "k1"} |-> IF k = "polls" THEN p + 2 ELSE 0]

ListOf(p) == IF p = 0 THEN << >> ELSE [i \in 1..p |-> IF i % 2 = 1 THEN "k1" ELSE "k2"]


\* The fields of a container after write p has been applied completely.
Full(p) ==
    [Config |-> ConfigOf(p), Events |-> EventsOf(p), Counter |-> CounterOf(p),
     Sites |-> ListOf(p), Devices |-> ListOf(p), Clients |-> ListOf(p)]

\* The module paths plugins declare and the modules of the build manifest.
PluginPaths == {"m1", "m2"}
DepModules ==
    {[Path |-> "m1", Version |-> "v1"], [Path |-> "m1", Version |-> "v2"],
     [Path |-> "m3", Version |-> "v9"]}

RECURSIVE SeqsUpTo(_, _)
SeqsUpTo(S, n) ==
    IF n = 0 THEN {<< >>}
    ELSE LET shorter == SeqsUpTo(S, n - 1)
         IN  shorter \cup {Append(q, x) : q \in shorter, x \in S}

VARIABLES
    \* --- web server -------------------------------------------------------
    hpc,            \* handler -> its position in the handler function
    hreq,           \* handler -> mux.Vars(r) and the route of its request
    hcall,          \* handler -> the responses it has issued, in order
    hrender,        \* handler -> how writing its response ended
    readers,        \* container -> handlers holding its read lock
    wheld,          \* container -> the writer holds its write lock
    cont,           \* container -> its fields
    wpc,            \* the polling writer's position
    wtarget,        \* the container the writer is writing
    wpayload,       \* the payload the writer is storing
    collectInputs,  \* s.Collect.Inputs(""): input name -> declared path
    collectOutputs, \* s.Collect.Outputs(""): output name -> declared path
    deps,           \* debug.ReadBuildInfo().Deps
    \* --- configuration pipeline -------------------------------------------
    ppc,            \* ParseConfigs' position
    perr,           \* the error ParseConfigs returns ("none": nil)
    plog,           \* the steps of ParseConfigs started so far, in order
    coreCfg,        \* u.Config: how far it has been resolved
    Plugins,        \* u.Plugins, the declared module paths
    li,             \* LoadPlugins' loop index
    opened,         \* the calls of plugin.Open, in order: the declared path,
                    \* what os.Stat reported, the name handed over, and the
                    \* error returned ("none": nil)
    inputs,         \* the input registry, in registration order
    outputs,        \* the output registry, in registration order
    ri,             \* parseInputs' / parseOutputs' loop index
    inputSync,      \* holder of the input-registry lock ("": free)
    outputSync      \* holder of the output-registry lock ("": free)

webVars ==
    <<hpc, hreq, hcall, hrender, readers, wheld, cont, wpc, wtarget, wpayload,
      collectInputs, collectOutputs, deps>>

cfgVars ==
    <<ppc, perr, plog, coreCfg, Plugins, li, opened, inputs, outputs, ri,
      inputSync, outputSync>>

vars == <<webVars, cfgVars>>

(***************************************************************************)
(* Responses.  A handler answers by calling s.handleJSON(w, data) or       *)
(* s.handleMissing(w, r); the model records the call.                      *)
(***************************************************************************)
JSON(data) == [fn |-> "handleJSON", data |-> data]
Missing == [fn |-> "handleMissing"]

NoReq == [kind |-> "none", name |-> "", sub |-> "", val |-> ""]

\* The requests of the routes /api/v1/config[/{sub}].
ConfigReqs ==
    {[kind |-> "config", name |-> "", sub |-> s, val |-> ""] :
        s \in {"", "plugins", "bogus"}}

\* The requests of /api/v1/input/{input}/{sub}/{value} and of
\* /api/v1/output/{output}/{sub}/{value}.
PluginReqs ==
    {[kind |-> k, name |-> n, sub |-> s, val |-> v] :
        k \in {"input", "output"}, n \in ReqNames, s \in ReqSubs, v \in ReqVals}

\* The requests repeated by two connections while no write happens: one of
\* each handler function and sub-route, hits and misses.
RepeatReqs ==
    {[kind |-> "config", name |-> "", sub |-> "plugins", val |-> ""],
     [kind |-> "config", name |-> "", sub |-> "bogus", val |-> ""],
     [kind |-> "input", name |-> "a", sub |-> "eventgroups", val |-> "k1"],
     [kind |-> "input", name |-> "a", sub |-> "counters", val |-> ""],
     [kind |-> "input", name |-> "a", sub |-> "devices", val |-> "k1"],
     [kind |-> "output", name |-> "b", sub |-> "events", val |-> "k2"],
     [kind |-> "output", name |-> "b", sub |-> "counters", val |-> "zz"],
     [kind |-> "output", name |-> "a", sub |-> "config", val |-> ""]}

\* The requests issued while several handlers run at once: a data response
\* and a handleMissing under the read lock, and a lookup miss in each role.
LockReqs ==
    {[kind |-> "input", name |-> "a", sub |-> "events", val |-> ""],
     [kind |-> "output", name |-> "b", sub |-> "events", val |-> "zz"],
     [kind |-> "input", name |-> "b", sub |-> "events", val |-> ""],
     [kind |-> "output", name |-> "a", sub |-> "events", val |-> "zz"]}

\* The payload written while several handlers run at once.
LockPayloads == {1}

(***************************************************************************)
(* Collaborators of the handlers whose code lives in other files.          *)
(***************************************************************************)
\* s.plugins.getInput(name): the input's container, or nil.
getInput(name) ==
    IF name \in InputNames THEN [role |-> "input", name |-> name] ELSE NoContainer

\* s.plugins.getOutput(name): the output's container, or nil.
getOutput(name) ==
    IF name \in OutputNames THEN [role |-> "output", name |-> name] ELSE NoContainer

\* Events.Groups(val): the events whose key matches the group.
Groups(events, val) ==
    [k \in {x \in DOMAIN events : val = "" \/ x = val} |-> events[k]]

\* Devices.Filter(val), Clients.Filter(val): the items of the given site.
Filter(list, val) ==
    IF val = "" THEN list ELSE SelectSeq(list, LAMBDA x : x = val)

\* How s.handleJSON / s.handleMissing may end: the response is written, or
\* rendering fails and the handler function is left early.
RenderOutcomes == {"ok", "fail"}

(***************************************************************************)
(* getPlugins and handleConfig.                                            *)
(***************************************************************************)
\* The first l with bi.Deps[l].Path == v (the inner loop breaks there).
FirstDep(d, v) ==
    CHOOSE l \in 1..Len(d) :
        d[l].Path = v /\ \A m \in 1..(l - 1) : d[m].Path # v

\* parse(name, values): one plugin{Name, Path, Version} per name whose path
\* is the path of some module of the manifest.
parse(values, d) ==
    [k \in {x \in DOMAIN values : \E l \in 1..Len(d) : d[l].Path = values[x]} |->
        [Name |-> k, Path |-> values[k], Version |-> d[FirstDep(d, values[k])].Version]]

getPlugins(ins, outs, d) ==
    [inputs |-> parse(ins, d), outputs |-> parse(outs, d)]

\* The switch of handleConfig on vars["sub"].
ConfigCall(sub, ins, outs, d) ==
    CASE sub = "" ->
            JSON([inputs |-> getPlugins(ins, outs, d).inputs,
                  outputs |-> getPlugins(ins, outs, d).outputs,
                  runtime |-> "runtime"])
      [] sub = "plugins" -> JSON(getPlugins(ins, outs, d))
      [] OTHER -> Missing

(***************************************************************************)
(* handleOutput and handleInput: the switch on vars["sub"], evaluated on   *)
(* the fields c of the container.                                          *)
(***************************************************************************)
\* c.Counter[val]: a Go map read, zero for an absent key.
CounterGet(counter, val) ==
    IF val \in DOMAIN counter THEN counter[val] ELSE 0

\* case "events": the whole mapping for no key, the key's events when the
\* key is present, handleMissing otherwise.
OutputEvents(c, val) ==
    IF val = "" THEN JSON(c.Events)
    ELSE IF val \in DOMAIN c.Events THEN JSON(c.Events[val])
    ELSE Missing

\* OutputCounters, with an absent key treated as an absent event key is.
OutputCountersLikeEvents(c, val) ==
    IF val = "" THEN JSON(c.Counter)
    ELSE IF val \in DOMAIN c.Counter THEN JSON([k \in {val} |-> c.Counter[val]])
    ELSE Missing

\* case "counters": the whole table for no key, else the key and its value.
OutputCounters(c, val) ==
    IF val = "" THEN JSON(c.Counter)
    ELSE JSON([k \in {val} |-> CounterGet(c.Counter, val)])

\* default: the plugin's Config.
OutputDefault(c) == JSON(c.Config)

OutputCall(c, sub, val) ==
    CASE sub = "eventgroups" -> JSON(Groups(c.Events, val))
      [] sub = "events" -> OutputEvents(c, val)
      [] sub = "counters" -> OutputCounters(c, val)
      [] OTHER -> OutputDefault(c)

\* InputEvents, with the map read's ok result not checked.
InputEventsUnchecked(c, val) ==
    IF val = "" THEN JSON(c.Events)
    ELSE IF val \in DOMAIN c.Events THEN JSON(c.Events[val])
    ELSE JSON(<< >>)

InputEvents(c, val) ==
    IF val = "" THEN JSON(c.Events)
    ELSE IF val \in DOMAIN c.Events THEN JSON(c.Events[val])
    ELSE Missing

\* InputCounters, with the empty key looked up as any other key is.
InputCountersNoEmptyCase(c, val) ==
    JSON([k \in {val} |-> CounterGet(c.Counter, val)])

InputCounters(c, val) ==
    IF val # "" THEN JSON([k \in {val} |-> CounterGet(c.Counter, val)])
    ELSE JSON(c.Counter)

\* InputDefault, answering handleMissing.
InputDefaultMissing(c) == Missing

InputDefault(c) == JSON(c.Config)

InputCall(c, sub, val) ==
    CASE sub = "eventgroups" -> JSON(Groups(c.Events, val))
      [] sub = "events" -> InputEvents(c, val)
      [] sub = "sites" -> JSON(c.Sites)
      [] sub = "devices" -> JSON(Filter(c.Devices, val))
      [] sub = "clients" -> JSON(Filter(c.Clients, val))
      [] sub = "counters" -> InputCounters(c, val)
      [] OTHER -> InputDefault(c)

\* The container a plugin-scoped request resolves to (the handler's c).
Target(r) ==
    IF r.kind = "input" THEN getInput(r.name)
    ELSE IF r.kind = "output" THEN getOutput(r.name)
    ELSE NoContainer

(***************************************************************************)
(* sync.RWMutex of a container.                                            *)
(***************************************************************************)
\* A writer has called Lock() on c and waits for the readers to leave.
WriterPending(c) == wpc = "wlock" /\ wtarget = c

\* CanRLock, with one lock shared by all containers.
CanRLockGlobal(c) ==
    \A d \in Containers : ~wheld[d] /\ ~WriterPending(d)

\* RLock() returns when no writer holds the lock and none waits for it.
CanRLock(c) == ~wheld[c] /\ ~WriterPending(c)

\* Lock() returns when nobody holds the lock.
CanLock(c) == ~wheld[c] /\ readers[c] = {}

(***************************************************************************)
(* The handlers, one action per step.                                      *)
(***************************************************************************)
\* The router hands request r to a handler function.
Request(h, r) ==
    /\ hpc[h] = "idle"
    /\ hpc' = [hpc EXCEPT ![h] = "start"]
    /\ hreq' = [hreq EXCEPT ![h] = r]
    /\ UNCHANGED <<hcall, hrender, readers, wheld, cont, wpc, wtarget, wpayload,
                   collectInputs, collectOutputs, deps, cfgVars>>

\* HandleConfig, with a switch that has no default case.
HandleConfigNoDefault(h) ==
    /\ hpc[h] = "start"
    /\ hreq[h].kind = "config"
    /\ IF hreq[h].sub \in {"", "plugins"}
       THEN \E out \in RenderOutcomes :
            /\ hcall' = [hcall EXCEPT ![h] =
                            Append(@, ConfigCall(hreq[h].sub, collectInputs,
                                                 collectOutputs, deps))]
            /\ hrender' = [hrender EXCEPT ![h] = out]
       ELSE UNCHANGED <<hcall, hrender>>
    /\ hpc' = [hpc EXCEPT ![h] = "done"]
    /\ UNCHANGED <<hreq, readers, wheld, cont, wpc, wtarget, wpayload,
                   collectInputs, collectOutputs, deps, cfgVars>>

\* handleConfig: takes no lock, answers in one step.
HandleConfig(h) ==
    /\ hpc[h] = "start"
    /\ hreq[h].kind = "config"
    /\ \E out \in RenderOutcomes :
        /\ hcall' = [hcall EXCEPT ![h] =
                        Append(@, ConfigCall(hreq[h].sub, collectInputs,
                                             collectOutputs, deps))]
        /\ hrender' = [hrender EXCEPT ![h] = out]
    /\ hpc' = [hpc EXCEPT ![h] = "done"]
    /\ UNCHANGED <<hreq, readers, wheld, cont, wpc, wtarget, wpayload,
                   collectInputs, collectOutputs, deps, cfgVars>>

\* Lookup, with a miss answered by an empty data response.
LookupMissAsEmpty(h) ==
    /\ hpc[h] = "start"
    /\ hreq[h].kind \in {"input", "output"}
    /\ IF Target(hreq[h]) = NoContainer
       THEN /\ \E out \in RenderOutcomes :
                /\ hcall' = [hcall EXCEPT ![h] = Append(@, JSON(EmptyMap))]
                /\ hrender' = [hrender EXCEPT ![h] = out]
            /\ hpc' = [hpc EXCEPT ![h] = "done"]
       ELSE /\ hpc' = [hpc EXCEPT ![h] = "rlock"]
            /\ UNCHANGED <<hcall, hrender>>
    /\ UNCHANGED <<hreq, readers, wheld, cont, wpc, wtarget, wpayload,
                   collectInputs, collectOutputs, deps, cfgVars>>

\* c := s.plugins.getInput(...) / getOutput(...); if c == nil, handleMissing
\* and return.
Lookup(h) ==
    /\ hpc[h] = "start"
    /\ hreq[h].kind \in {"input", "output"}
    /\ IF Target(hreq[h]) = NoContainer
       THEN /\ \E out \in RenderOutcomes :
                /\ hcall' = [hcall EXCEPT ![h] = Append(@, Missing)]
                /\ hrender' = [hrender EXCEPT ![h] = out]
            /\ hpc' = [hpc EXCEPT ![h] = "done"]
       ELSE /\ hpc' = [hpc EXCEPT ![h] = "rlock"]
            /\ UNCHANGED <<hcall, hrender>>
    /\ UNCHANGED <<hreq, readers, wheld, cont, wpc, wtarget, wpayload,
                   collectInputs, collectOutputs, deps, cfgVars>>

\* RLock, with the handler going on without taking the read lock.
RLockSkipped(h) ==
    /\ hpc[h] = "rlock"
    /\ hpc' = [hpc EXCEPT ![h] = "respond"]
    /\ UNCHANGED <<hreq, hcall, hrender, readers, wheld, cont, wpc, wtarget,
                   wpayload, collectInputs, collectOutputs, deps, cfgVars>>

\* c.RLock(); defer c.RUnlock().
RLock(h) ==
    /\ hpc[h] = "rlock"
    /\ CanRLock(Target(hreq[h]))
    /\ readers' = [readers EXCEPT ![Target(hreq[h])] = @ \cup {h}]
    /\ hpc' = [hpc EXCEPT ![h] = "respond"]
    /\ UNCHANGED <<hreq, hcall, hrender, wheld, cont, wpc, wtarget, wpayload,
                   collectInputs, collectOutputs, deps, cfgVars>>

\* Respond, with the read lock given up before the response is serialized.
RespondUnlocked(h) ==
    /\ hpc[h] = "respond"
    /\ LET r == hreq[h]
           c == cont[Target(r)]
           call == IF r.kind = "input" THEN InputCall(c, r.sub, r.val)
                   ELSE OutputCall(c, r.sub, r.val)
       IN  \E out \in RenderOutcomes :
            /\ hcall' = [hcall EXCEPT ![h] = Append(@, call)]
            /\ hrender' = [hrender EXCEPT ![h] = out]
    /\ readers' = [readers EXCEPT ![Target(hreq[h])] = @ \ {h}]
    /\ hpc' = [hpc EXCEPT ![h] = "runlock"]
    /\ UNCHANGED <<hreq, wheld, cont, wpc, wtarget, wpayload,
                   collectInputs, collectOutputs, deps, cfgVars>>

\* Respond, with the handler counting its queries in the container.
RespondCounting(h) ==
    /\ hpc[h] = "respond"
    /\ LET r == hreq[h]
           c == cont[Target(r)]
           call == IF r.kind = "input" THEN InputCall(c, r.sub, r.val)
                   ELSE OutputCall(c, r.sub, r.val)
       IN  \E out \in RenderOutcomes :
            /\ hcall' = [hcall EXCEPT ![h] = Append(@, call)]
            /\ hrender' = [hrender EXCEPT ![h] = out]
    /\ cont' = [cont EXCEPT ![Target(hreq[h])].Counter =
                    [k \in {"queries"} |-> (CounterGet(@, "queries") + 1) % 2]]
    /\ hpc' = [hpc EXCEPT ![h] = "runlock"]
    /\ UNCHANGED <<hreq, readers, wheld, wpc, wtarget, wpayload,
                   collectInputs, collectOutputs, deps, cfgVars>>

\* The switch: the response is built from the container's fields,
\* serialized and written.
Respond(h) ==
    /\ hpc[h] = "respond"
    /\ LET r == hreq[h]
           c == cont[Target(r)]
           call == IF r.kind = "input" THEN InputCall(c, r.sub, r.val)
                   ELSE OutputCall(c, r.sub, r.val)
       IN  \E out \in RenderOutcomes :
            /\ hcall' = [hcall EXCEPT ![h] = Append(@, call)]
            /\ hrender' = [hrender EXCEPT ![h] = out]
    /\ hpc' = [hpc EXCEPT ![h] = "runlock"]
    /\ UNCHANGED <<hreq, readers, wheld, cont, wpc, wtarget, wpayload,
                   collectInputs, collectOutputs, deps, cfgVars>>

\* RUnlock, not deferred: skipped when the handler is left early.
RUnlockNotDeferred(h) ==
    /\ hpc[h] = "runlock"
    /\ readers' = [readers EXCEPT ![Target(hreq[h])] =
                      IF hrender[h] = "fail" THEN @ ELSE @ \ {h}]
    /\ hpc' = [hpc EXCEPT ![h] = "done"]
    /\ UNCHANGED <<hreq, hcall, hrender, wheld, cont, wpc, wtarget, wpayload,
                   collectInputs, collectOutputs, deps, cfgVars>>

\* The deferred c.RUnlock() runs as the handler function returns.
RUnlock(h) ==
    /\ hpc[h] = "runlock"
    /\ readers' = [readers EXCEPT ![Target(hreq[h])] = @ \ {h}]
    /\ hpc' = [hpc EXCEPT ![h] = "done"]
    /\ UNCHANGED <<hreq, hcall, hrender, wheld, cont, wpc, wtarget, wpayload,
                   collectInputs, collectOutputs, deps, cfgVars>>

\* The connection is ready for its next request.
Finish(h) ==
    /\ hpc[h] = "done"
    /\ hpc' = [hpc EXCEPT ![h] = "idle"]
    /\ hreq' = [hreq EXCEPT ![h] = NoReq]
    /\ hcall' = [hcall EXCEPT ![h] = << >>]
    /\ hrender' = [hrender EXCEPT ![h] = "none"]
    /\ UNCHANGED <<readers, wheld, cont, wpc, wtarget, wpayload,
                   collectInputs, collectOutputs, deps, cfgVars>>

(***************************************************************************)
(* The polling writer: Lock, store the payload field by field, Unlock.     *)
(***************************************************************************)
WriteBegin(c, p) ==
    /\ wpc = "idle"
    /\ wpc' = "wlock"
    /\ wtarget' = c
    /\ wpayload' = p
    /\ UNCHANGED <<hpc, hreq, hcall, hrender, readers, wheld, cont,
                   collectInputs, collectOutputs, deps, cfgVars>>

WriteLock ==
    /\ wpc = "wlock"
    /\ CanLock(wtarget)
    /\ wheld' = [wheld EXCEPT ![wtarget] = TRUE]
    /\ wpc' = "config"
    /\ UNCHANGED <<hpc, hreq, hcall, hrender, readers, cont, wtarget, wpayload,
                   collectInputs, collectOutputs, deps, cfgVars>>

WriteConfig ==
    /\ wpc = "config"
    /\ cont' = [cont EXCEPT ![wtarget] =
                  [@ EXCEPT !.Config = ConfigOf(wpayload),
                            !.Sites = ListOf(wpayload),
                            !.Devices = ListOf(wpayload),
                            !.Clients = ListOf(wpayload)]]
    /\ wpc' = "events"
    /\ UNCHANGED <<hpc, hreq, hcall, hrender, readers, wheld, wtarget, wpayload,
                   collectInputs, collectOutputs, deps, cfgVars>>

WriteEvents ==
    /\ wpc = "events"
    /\ cont' = [cont EXCEPT ![wtarget] = [@ EXCEPT !.Events = EventsOf(wpayload)]]
    /\ wpc' = "counter"
    /\ UNCHANGED <<hpc, hreq, hcall, hrender, readers, wheld, wtarget, wpayload,
                   collectInputs, collectOutputs, deps, cfgVars>>

WriteCounter ==
    /\ wpc = "counter"
    /\ cont' = [cont EXCEPT ![wtarget] = [@ EXCEPT !.Counter = CounterOf(wpayload)]]
    /\ wpc' = "wunlock"
    /\ UNCHANGED <<hpc, hreq, hcall, hrender, readers, wheld, wtarget, wpayload,
                   collectInputs, collectOutputs, deps, cfgVars>>

WriteUnlock ==
    /\ wpc = "wunlock"
    /\ wheld' = [wheld EXCEPT ![wtarget] = FALSE]
    /\ wpc' = "idle"
    /\ wtarget' = NoContainer
    /\ wpayload' = 0
    /\ UNCHANGED <<hpc, hreq, hcall, hrender, readers, cont,
                   collectInputs, collectOutputs, deps, cfgVars>>

WriteSteps ==
    \/ WriteLock
    \/ WriteConfig
    \/ WriteEvents
    \/ WriteCounter
    \/ WriteUnlock

Write ==
    \/ \E c \in Containers, p \in Payloads : WriteBegin(c, p)
    \/ WriteSteps

(***************************************************************************)
(* The configuration pipeline (package poller).  Paths are sequences of    *)
(* characters, so that suffix trimming and joining are computed.           *)
(***************************************************************************)
SoSuffix == <<".", "s", "o">>

\* The module paths a config file may declare.
DeclPaths ==
    {<< >>, SoSuffix, <<"f">>, <<"f", ".", "s", "o">>, <<"g">>}

\* DefaultObjPath, the default search directory.
DefaultObjPath == <<"D">>

\* strings.TrimSuffix(p, suffix)
TrimSuffix(p, suffix) ==
    IF /\ Len(p) >= Len(suffix)
       /\ SubSeq(p, Len(p) - Len(suffix) + 1, Len(p)) = suffix
    THEN SubSeq(p, 1, Len(p) - Len(suffix))
    ELSE p

\* ModuleName, with the suffix added to the path as declared.
ModuleNameUntrimmed(p) == p \o SoSuffix

\* name := strings.TrimSuffix(p, ".so") + ".so"
ModuleName(p) == TrimSuffix(p, SoSuffix) \o SoSuffix

\* path.Join(dir, name), for clean non-empty elements.
Join(dir, name) == dir \o <<"/">> \o name

\* The name LoadPlugins hands to plugin.Open: the name itself unless
\* os.Stat reports that it does not exist.
ResolveName(name, stat) ==
    IF stat = "notexist" THEN Join(DefaultObjPath, name) ELSE name

\* What os.Stat may report.
StatOutcomes == {"found", "notexist", "othererror"}

\* The errors plugin.Open may return.
OpenErrors == {"no such file", "not a plugin"}

\* fmt.Errorf(msg + ": %w", cause), with the cause left out.
ErrorfNoCause(msg, cause) == msg

\* fmt.Errorf(msg + ": %w", cause): the message wraps its cause.
Errorf(msg, cause) == msg \o ": " \o cause

\* The plugins a module registers from its init function when it is first
\* loaded: module f brings an input, module g an output.
ModuleInputs(file) ==
    IF file \in {ModuleName(<<"f">>), Join(DefaultObjPath, ModuleName(<<"f">>))}
    THEN <<"dynin">> ELSE << >>

ModuleOutputs(file) ==
    IF file \in {ModuleName(<<"g">>), Join(DefaultObjPath, ModuleName(<<"g">>))}
    THEN <<"dynout">> ELSE << >>

\* A registry entry: the plugin and how far its Config has been resolved.
Entry(n) == [name |-> n, cfg |-> "default"]

RECURSIVE Entries(_)
Entries(names) ==
    IF names = << >> THEN << >> ELSE <<Entry(Head(names))>> \o Entries(Tail(names))

\* Registrations (NewInput / NewOutput) of names not yet registered.
Register(registry, names) ==
    registry \o Entries(SelectSeq(names,
                    LAMBDA n : \A k \in 1..Len(registry) : registry[k].name # n))

\* parseInterface: the config file, then the environment; the first failure
\* is returned wrapped.
parseInterface(fileOK, envOK) ==
    IF ~fileOK THEN [cfg |-> "filefailed", err |-> "cnfg unmarshal"]
    ELSE IF ~envOK THEN [cfg |-> "envfailed", err |-> "env unmarshal"]
    ELSE [cfg |-> "resolved", err |-> "none"]

\* Continue, with the error of LoadPlugins not checked.
ContinueLoadUnchecked(step, err) ==
    IF err # "none" /\ step # "load" THEN "done"
    ELSE CASE step = "core" -> "load"
           [] step = "load" -> "inputs"
           [] step = "inputs" -> "outputs"
           [] OTHER -> "done"

\* Continue, with the dynamic plugins loaded after the configs are resolved.
ContinueLoadLast(step, err) ==
    IF err # "none" THEN "done"
    ELSE CASE step = "core" -> "inputs"
           [] step = "inputs" -> "outputs"
           [] step = "outputs" -> "load"
           [] OTHER -> "done"

\* ParseConfigs' chain of steps: an error is returned at once, otherwise
\* the next step is called.
Continue(step, err) ==
    IF err # "none" THEN "done"
    ELSE CASE step = "core" -> "load"
           [] step = "load" -> "inputs"
           [] step = "inputs" -> "outputs"
           [] OTHER -> "done"

\* The position at which a step of ParseConfigs begins.
StepEntry(step) ==
    CASE step = "load" -> "load"
      [] step = "inputs" -> "ilock"
      [] step = "outputs" -> "olock"
      [] OTHER -> "done"

\* The step returns err to ParseConfigs.
Return(step, err) ==
    /\ perr' = err
    /\ ppc' = StepEntry(Continue(step, err))
    /\ plog' = IF Continue(step, err) = "done" THEN plog
               ELSE Append(plog, Continue(step, err))

\* Step 1: u.parseInterface(u.Config).
ParseCore ==
    /\ ppc = "core"
    /\ \E fileOK \in BOOLEAN, envOK \in BOOLEAN,
          decl \in SeqsUpTo(DeclPaths, MaxPlugins) :
        /\ coreCfg' = parseInterface(fileOK, envOK).cfg
        /\ Plugins' = IF fileOK THEN decl ELSE << >>
        /\ Return("core", parseInterface(fileOK, envOK).err)
    /\ li' = 1
    /\ UNCHANGED <<opened, inputs, outputs, ri, inputSync, outputSync, webVars>>

\* Step 2, one iteration of LoadPlugins' loop.
LoadOne ==
    /\ ppc = "load"
    /\ li <= Len(Plugins)
    /\ LET name == ModuleName(Plugins[li])
       IN  IF name = SoSuffix
           THEN /\ li' = li + 1
                /\ UNCHANGED <<ppc, perr, plog, opened, inputs, outputs>>
           ELSE \E stat \in StatOutcomes, err \in {"none"} \cup OpenErrors :
                LET file == ResolveName(name, stat)
                    first == \A k \in 1..Len(opened) : opened[k].name # file
                IN  /\ opened' = Append(opened, [path |-> Plugins[li], stat |-> stat,
                                                 name |-> file, err |-> err])
                    /\ IF err = "none"
                       THEN /\ inputSync = "" /\ outputSync = ""
                            /\ inputs' = IF first THEN Register(inputs, ModuleInputs(file))
                                         ELSE inputs
                            /\ outputs' = IF first THEN Register(outputs, ModuleOutputs(file))
                                          ELSE outputs
                            /\ li' = li + 1
                            /\ UNCHANGED <<ppc, perr, plog>>
                       ELSE /\ Return("load", Errorf("opening plugin", err))
                            /\ UNCHANGED <<li, inputs, outputs>>
    /\ UNCHANGED <<coreCfg, Plugins, ri, inputSync, outputSync, webVars>>

\* Step 2, the loop is over: return nil.
LoadDone ==
    /\ ppc = "load"
    /\ li > Len(Plugins)
    /\ Return("load", "none")
    /\ UNCHANGED <<coreCfg, Plugins, li, opened, inputs, outputs, ri, inputSync,
                   outputSync, webVars>>

\* Step 3: inputSync.Lock(); defer inputSync.Unlock().
InputsLock ==
    /\ ppc = "ilock"
    /\ inputSync = ""
    /\ inputSync' = "parseInputs"
    /\ ri' = 1
    /\ ppc' = "iparse"
    /\ UNCHANGED <<perr, plog, coreCfg, Plugins, li, opened, inputs, outputs,
                   outputSync, webVars>>

\* InputsParse, with the loop going on after an error.
InputsParseKeepGoing ==
    /\ ppc = "iparse"
    /\ IF ri <= Len(inputs)
       THEN \E fileOK \in BOOLEAN, envOK \in BOOLEAN :
            LET r == parseInterface(fileOK, envOK)
            IN  /\ inputs' = [inputs EXCEPT ![ri].cfg = r.cfg]
                /\ perr' = IF perr = "none" THEN r.err ELSE perr
                /\ ri' = ri + 1 /\ ppc' = "iparse"
       ELSE /\ ppc' = "iunlock"
            /\ UNCHANGED <<inputs, perr, ri>>
    /\ UNCHANGED <<plog, coreCfg, Plugins, li, opened, outputs, inputSync,
                   outputSync, webVars>>

\* Step 3, one iteration: u.parseInterface(i.Config); an error leaves the
\* loop.
InputsParse ==
    /\ ppc = "iparse"
    /\ IF ri <= Len(inputs)
       THEN \E fileOK \in BOOLEAN, envOK \in BOOLEAN :
            LET r == parseInterface(fileOK, envOK)
            IN  /\ inputs' = [inputs EXCEPT ![ri].cfg = r.cfg]
                /\ perr' = r.err
                /\ IF r.err = "none"
                   THEN ri' = ri + 1 /\ ppc' = "iparse"
                   ELSE ri' = ri /\ ppc' = "iunlock"
       ELSE /\ ppc' = "iunlock"
            /\ UNCHANGED <<inputs, perr, ri>>
    /\ UNCHANGED <<plog, coreCfg, Plugins, li, opened, outputs, inputSync,
                   outputSync, webVars>>

\* InputsUnlock, with the input-registry lock kept when the step returns.
InputsUnlockKept ==
    /\ ppc = "iunlock"
    /\ Return("inputs", perr)
    /\ UNCHANGED <<coreCfg, Plugins, li, opened, inputs, outputs, ri, inputSync,
                   outputSync, webVars>>

\* Step 3 returns: the deferred inputSync.Unlock() runs.
InputsUnlock ==
    /\ ppc = "iunlock"
    /\ inputSync' = ""
    /\ Return("inputs", perr)
    /\ UNCHANGED <<coreCfg, Plugins, li, opened, inputs, outputs, ri, outputSync,
                   webVars>>

\* Step 4: outputSync.Lock(); defer outputSync.Unlock().
OutputsLock ==
    /\ ppc = "olock"
    /\ outputSync = ""
    /\ outputSync' = "parseOutputs"
    /\ ri' = 1
    /\ ppc' = "oparse"
    /\ UNCHANGED <<perr, plog, coreCfg, Plugins, li, opened, inputs, outputs,
                   inputSync, webVars>>

\* Step 4, one iteration: u.parseInterface(o.Config).
OutputsParse ==
    /\ ppc = "oparse"
    /\ IF ri <= Len(outputs)
       THEN \E fileOK \in BOOLEAN, envOK \in BOOLEAN :
            LET r == parseInterface(fileOK, envOK)
            IN  /\ outputs' = [outputs EXCEPT ![ri].cfg = r.cfg]
                /\ perr' = r.err
                /\ IF r.err = "none"
                   THEN ri' = ri + 1 /\ ppc' = "oparse"
                   ELSE ri' = ri /\ ppc' = "ounlock"
       ELSE /\ ppc' = "ounlock"
            /\ UNCHANGED <<outputs, perr, ri>>
    /\ UNCHANGED <<plog, coreCfg, Plugins, li, opened, inputs, inputSync,
                   outputSync, webVars>>

\* Step 4 returns: the deferred outputSync.Unlock() runs, and ParseConfigs
\* returns what parseOutputs returned.
OutputsUnlock ==
    /\ ppc = "ounlock"
    /\ outputSync' = ""
    /\ Return("outputs", perr)
    /\ UNCHANGED <<coreCfg, Plugins, li, opened, inputs, outputs, ri, inputSync,
                   webVars>>

ParseConfigs ==
    \/ ParseCore
    \/ LoadOne
    \/ LoadDone
    \/ InputsLock
    \/ InputsParse
    \/ InputsUnlock
    \/ OutputsLock
    \/ OutputsParse
    \/ OutputsUnlock

(***************************************************************************)
(* Specifications.                                                         *)
(***************************************************************************)
\* ParseConfigs has been called; the compiled-in plugins are registered.
InitPipeline ==
    /\ ppc = "core"
    /\ perr = "none"
    /\ plog = <<"core">>
    /\ coreCfg = "default"
    /\ Plugins = << >>
    /\ li = 1
    /\ opened = << >>
    /\ inputs = Entries(<<"in1", "in2">>)
    /\ outputs = Entries(<<"out1", "out2">>)
    /\ ri = 1
    /\ inputSync = ""
    /\ outputSync = ""

\* The pipeline is not running.
InitPipelineOver ==
    /\ ppc = "over"
    /\ perr = "none"
    /\ plog = << >>
    /\ coreCfg = "resolved"
    /\ Plugins = << >>
    /\ li = 1
    /\ opened = << >>
    /\ inputs = << >>
    /\ outputs = << >>
    /\ ri = 1
    /\ inputSync = ""
    /\ outputSync = ""

\* The web server is not serving yet.
InitHandlersDown ==
    /\ hpc = [h \in Handlers |-> "down"]
    /\ hreq = [h \in Handlers |-> NoReq]
    /\ hcall = [h \in Handlers |-> << >>]
    /\ hrender = [h \in Handlers |-> "none"]

InitHandlers ==
    /\ hpc = [h \in Handlers |-> "idle"]
    /\ hreq = [h \in Handlers |-> NoReq]
    /\ hcall = [h \in Handlers |-> << >>]
    /\ hrender = [h \in Handlers |-> "none"]

\* The containers as registered; the polling loop runs (idle) or has not been
\* started (down).
InitContainers(poller) ==
    /\ readers = [c \in Containers |-> {}]
    /\ wheld = [c \in Containers |-> FALSE]
    /\ cont = [c \in Containers |-> Full(0)]
    /\ wpc = poller
    /\ wtarget = NoContainer
    /\ wpayload = 0

\* One catalog and manifest: input a is built from module m1, output b from
\* a module the manifest does not list.
InitCatalogFixed ==
    /\ collectInputs = [n \in InputNames |-> "m1"]
    /\ collectOutputs = [n \in OutputNames |-> "m2"]
    /\ deps = <<[Path |-> "m1", Version |-> "v1"]>>

\* Every catalog and manifest within the bounds.
InitCatalogAny ==
    /\ collectInputs \in [InputNames -> PluginPaths]
    /\ collectOutputs \in [OutputNames -> PluginPaths]
    /\ deps \in SeqsUpTo(DepModules, MaxDeps)

InitWeb == InitHandlers /\ InitContainers("idle") /\ InitCatalogFixed /\ InitPipelineOver

InitConfig == InitHandlersDown /\ InitContainers("down") /\ InitCatalogFixed /\ InitPipeline

\* Either the startup pipeline runs, or the web server serves concurrent
\* plugin-scoped requests while the poller writes.
Init == InitWeb \/ InitConfig

Next ==
    \/ \E h \in Handlers, r \in LockReqs : Request(h, r)
    \/ \E h \in Handlers : Lookup(h)
    \/ \E h \in Handlers : RLock(h)
    \/ \E h \in Handlers : Respond(h)
    \/ \E h \in Handlers : RUnlock(h)
    \/ \E h \in Handlers : Finish(h)
    \/ \E c \in Containers, p \in LockPayloads : WriteBegin(c, p)
    \/ WriteSteps
    \/ ParseConfigs

Spec == Init /\ [][Next]_vars

\* One connection, every request.
NextServe ==
    \/ \E r \in ConfigReqs \cup PluginReqs : Request(1, r)
    \/ HandleConfig(1)
    \/ Lookup(1)
    \/ RLock(1)
    \/ Respond(1)
    \/ RUnlock(1)
    \/ Finish(1)
    \/ Write

SpecServe == InitWeb /\ [][NextServe]_vars

\* handleConfig over every catalog and manifest.
InitPlugins == InitHandlers /\ InitContainers("idle") /\ InitCatalogAny /\ InitPipelineOver

NextPlugins ==
    \/ \E r \in ConfigReqs : Request(1, r)
    \/ HandleConfig(1)
    \/ Finish(1)

SpecPlugins == InitPlugins /\ [][NextPlugins]_vars

\* The containers after any completed writes, while the polling loop does
\* not write.
InitContainersAny ==
    /\ readers = [c \in Containers |-> {}]
    /\ wheld = [c \in Containers |-> FALSE]
    /\ cont \in [Containers -> {Full(p) : p \in 0..MaxPayload}]
    /\ wpc = "down"
    /\ wtarget = NoContainer
    /\ wpayload = 0

InitReadOnly == InitHandlers /\ InitContainersAny /\ InitCatalogFixed /\ InitPipelineOver

\* Two connections issue requests, repeated or not, and no write happens.
NextReadOnly ==
    \/ \E h \in {1, 2}, r \in RepeatReqs : Request(h, r)
    \/ \E h \in {1, 2} : HandleConfig(h)
    \/ \E h \in {1, 2} : Lookup(h)
    \/ \E h \in {1, 2} : RLock(h)
    \/ \E h \in {1, 2} : Respond(h)
    \/ \E h \in {1, 2} : RUnlock(h)
    \/ \E h \in {1, 2} : Finish(h)

SpecReadOnly == InitReadOnly /\ [][NextReadOnly]_vars

\* Two connections and the writer, scheduled fairly.
NextLive ==
    \/ \E h \in {1, 2}, r \in LockReqs : Request(h, r)
    \/ \E h \in {1, 2} : Lookup(h)
    \/ \E h \in {1, 2} : RLock(h)
    \/ \E h \in {1, 2} : Respond(h)
    \/ \E h \in {1, 2} : RUnlock(h)
    \/ \E h \in {1, 2} : Finish(h)
    \/ \E c \in Containers, p \in LockPayloads : WriteBegin(c, p)
    \/ WriteSteps

\* A handler goroutine that can run is run.  RLock can return only while no
\* writer holds or waits for the lock, so a writer that comes back again
\* and again enables it only now and then: strong fairness stands for
\* sync.RWMutex admitting, when the writer unlocks, every reader that waits.
\* A writer that has called Lock goes on to Unlock; whether a new write is
\* begun is left open, as is whether a request arrives.
Fairness ==
    /\ \A h \in {1, 2} :
        /\ WF_vars(Lookup(h))
        /\ SF_vars(RLock(h))
        /\ WF_vars(Respond(h))
        /\ WF_vars(RUnlock(h))
    /\ WF_vars(WriteSteps)

SpecLive == InitWeb /\ [][NextLive]_vars /\ Fairness

\* One run of ParseConfigs.
SpecConfig == InitConfig /\ [][ParseConfigs]_vars

(***************************************************************************)
(* Properties.                                                             *)
(***************************************************************************)
Steps == <<"core", "load", "inputs", "outputs">>

IsPrefix(a, b) == Len(a) <= Len(b) /\ a = SubSeq(b, 1, Len(a))

\* C1: ParseConfigs starts its steps in the order core config, dynamic
\* plugins, input configs, output configs, each at most once; once a step
\* has failed only the step's own return is left, no later step is started
\* and the error is the one returned; ParseConfigs returns nil only after
\* all four steps.
C1_StrictOrderFailFast ==
    /\ [](/\ IsPrefix(plog, Steps)
          /\ perr # "none" => ppc \in {"iunlock", "ounlock", "done"}
          /\ (ppc = "done" /\ perr = "none") => plog = Steps)
    /\ [][perr # "none" => (plog' = plog /\ perr' = perr)]_vars

\* C1 witness: opening a module failed in step 2; ParseConfigs has returned
\* the error and steps 3 and 4 were never started.
C1_Witness ==
    /\ ppc = "done"
    /\ perr = "opening plugin: no such file"
    /\ plog = <<"core", "load">>
    /\ inputSync = "" /\ outputSync = ""
    /\ \A k \in 1..Len(inputs) : inputs[k].cfg = "default"

\* A container's fields are those of one completely applied write.
Complete(c) == \E p \in 0..MaxPayload : cont[c] = Full(p)

\* C2: a handler that is reading a container (building its response) holds
\* the container's read lock, no writer holds the lock, and the fields are
\* those of one complete write; the writer holds the lock only while no
\* handler does.
C2_ReadersExcludeWriter ==
    /\ \A h \in Handlers :
        hpc[h] \in {"respond", "runlock"} =>
            /\ h \in readers[Target(hreq[h])]
            /\ ~wheld[Target(hreq[h])]
            /\ Complete(Target(hreq[h]))
    /\ \A c \in Containers :
        /\ wheld[c] => readers[c] = {}
        /\ ~Complete(c) => (wheld[c] /\ wtarget = c)

\* C2 witness: the writer has applied part of a write to a container while
\* a handler of the same container waits in RLock and another handler reads
\* a different container.
C2_Witness ==
    /\ wpc = "events"
    /\ ~Complete(wtarget)
    /\ \E h \in Handlers : hpc[h] = "rlock" /\ Target(hreq[h]) = wtarget
    /\ \E h \in Handlers : hpc[h] = "respond" /\ Target(hreq[h]) # wtarget

\* C3: a plugin-scoped request whose name is not registered never holds a
\* container lock, never reaches the locked part of the handler, and is
\* answered by exactly handleMissing.
C3_MissTakesNoLock ==
    \A h \in Handlers :
        (hreq[h].kind \in {"input", "output"} /\ Target(hreq[h]) = NoContainer) =>
            /\ \A c \in Containers : h \notin readers[c]
            /\ hpc[h] \in {"start", "done"}
            /\ hpc[h] = "start" => hcall[h] = << >>
            /\ hpc[h] = "done" => hcall[h] = <<Missing>>

\* C3 witness: a request for an unregistered name has been answered with
\* handleMissing while the writer holds a container's lock.
C3_Witness ==
    \E h \in Handlers :
        /\ hreq[h].kind = "input"
        /\ hreq[h].name \notin InputNames
        /\ hreq[h].sub = "counters"
        /\ hpc[h] = "done"
        /\ hcall[h] = <<Missing>>
        /\ \E c \in Containers : wheld[c]

\* C4: a handler that is not between RLock and its return holds no read
\* lock (whatever the response was and however writing it ended), and the
\* registry locks are held only inside parseInputs and parseOutputs.
C4_NoLockAfterReturn ==
    /\ \A h \in Handlers, c \in Containers :
        h \in readers[c] => hpc[h] \in {"respond", "runlock"}
    /\ inputSync # "" => ppc \in {"iparse", "iunlock"}
    /\ outputSync # "" => ppc \in {"oparse", "ounlock"}

\* C4 witness: a handler returned after handleMissing under the read lock
\* failed to render; it holds no lock.
C4_Witness ==
    \E h \in Handlers :
        /\ hpc[h] = "done"
        /\ Target(hreq[h]) # NoContainer
        /\ hcall[h] = <<Missing>>
        /\ hrender[h] = "fail"
        /\ \A c \in Containers : h \notin readers[c]

\* C5: a handler holds the read lock of the container it targets and of no
\* other, and its RLock can return whenever no writer holds or awaits that
\* one container's lock, whatever the state of the other containers' locks.
C5_OnlyOwnContainerLock ==
    \A h \in Handlers :
        /\ \A c \in Containers : h \in readers[c] => c = Target(hreq[h])
        /\ (hpc[h] = "rlock" /\ ~wheld[Target(hreq[h])]
                /\ ~WriterPending(Target(hreq[h]))) => ENABLED RLock(h)

\* C5 witness: the writer holds container A's lock, a handler may take B's
\* read lock, and another handler already reads B.
C5_Witness ==
    \E h1 \in Handlers, h2 \in Handlers :
        /\ wtarget \in Containers
        /\ wheld[wtarget]
        /\ wpc = "events"
        /\ hpc[h1] = "rlock"
        /\ Target(hreq[h1]) # wtarget
        /\ ENABLED RLock(h1)
        /\ hpc[h2] = "respond"
        /\ Target(hreq[h2]) = Target(hreq[h1])

C7_CounterQuery ==
    \A h \in Handlers :
        (hpc[h] = "runlock" /\ hreq[h].sub = "counters") =>
            LET counter == cont[Target(hreq[h])].Counter
                val == hreq[h].val
            IN  hcall[h] =
                    <<JSON(IF val = "" THEN counter
                           ELSE IF val \in DOMAIN counter
                                THEN [k \in {val} |-> counter[val]]
                                ELSE [k \in {val} |-> 0])>>

\* C7 witness: an output's non-empty counter table was asked for a key it
\* does not hold, and the answer maps the key to zero.
C7_Witness ==
    \E h \in Handlers :
        /\ hpc[h] = "runlock"
        /\ hreq[h].kind = "output"
        /\ hreq[h].sub = "counters"
        /\ hreq[h].val = "zz"
        /\ DOMAIN cont[Target(hreq[h])].Counter # {}
        /\ hcall[h] = <<JSON([k \in {"zz"} |-> 0])>>

\* C8: the answer to an events query on a registered plugin, under the read
\* lock: the whole mapping for the empty key, the key's sequence (even an
\* empty one) for a key of the mapping, handleMissing for any other key.
C8_EventsQuery ==
    \A h \in Handlers :
        (hpc[h] = "runlock" /\ hreq[h].sub = "events") =>
            LET events == cont[Target(hreq[h])].Events
                val == hreq[h].val
            IN  /\ val = "" => hcall[h] = <<JSON(events)>>
                /\ (val # "" /\ val \in DOMAIN events) =>
                        hcall[h] = <<JSON(events[val])>>
                /\ (val # "" /\ val \notin DOMAIN events) =>
                        hcall[h] = <<Missing>>

\* C8 witness: an input holds key k1 with no events; the query for k1 is
\* answered with the empty sequence as data.
C8_Witness ==
    \E h \in Handlers :
        /\ hpc[h] = "runlock"
        /\ hreq[h].kind = "input"
        /\ hreq[h].sub = "events"
        /\ hreq[h].val = "k1"
        /\ "k1" \in DOMAIN cont[Target(hreq[h])].Events
        /\ cont[Target(hreq[h])].Events["k1"] = << >>
        /\ hcall[h] = <<JSON(<< >>)>>

\* A descriptor map lists every name of values with its path, and with the
\* version of a manifest module of that path, or no version without one.
Describes(m, values) ==
    /\ DOMAIN m = DOMAIN values
    /\ \A k \in DOMAIN values :
        /\ m[k].Name = k
        /\ m[k].Path = values[k]
        /\ IF \E l \in 1..Len(deps) : deps[l].Path = values[k]
           THEN \E l \in 1..Len(deps) :
                    deps[l].Path = values[k] /\ m[k].Version = deps[l].Version
           ELSE m[k].Version = ""

\* C9 as stated: the descriptor maps of /api/v1/config and
\* /api/v1/config/plugins hold one entry per registered input and output,
\* with an empty version when no manifest module matches.
C9_EveryPluginListed ==
    \A h \in Handlers :
        (hpc[h] = "done" /\ hreq[h].kind = "config"
                /\ hreq[h].sub \in {"", "plugins"}) =>
            /\ Describes(hcall[h][1].data.inputs, collectInputs)
            /\ Describes(hcall[h][1].data.outputs, collectOutputs)

\* The sub-routes the spec documents, and those the handlers have a case for.
DocumentedSubs(kind) ==
    IF kind = "input"
    THEN {"config", "eventgroups", "events", "counters", "sites", "devices", "clients"}
    ELSE {"config", "eventgroups", "events", "counters"}

HandledSubs(kind) ==
    IF kind = "input"
    THEN {"eventgroups", "events", "counters", "sites", "devices", "clients"}
    ELSE {"eventgroups", "events", "counters"}

\* C10 as stated: a sub-route that is not documented is answered with
\* handleMissing, by handleConfig and by the handlers of a registered plugin.
C10_UndocumentedSubMissing ==
    \A h \in Handlers :
        /\ (hpc[h] = "done" /\ hreq[h].kind = "config"
                /\ hreq[h].sub \notin {"", "plugins"}) => hcall[h] = <<Missing>>
        /\ (hpc[h] = "runlock" /\ hreq[h].sub # ""
                /\ hreq[h].sub \notin DocumentedSubs(hreq[h].kind)) =>
                    hcall[h] = <<Missing>>

\* C10 amended: handleConfig answers a sub other than empty or plugins with
\* handleMissing; the handlers of a registered plugin answer every sub they
\* have no case for, documented or not, with the plugin's Config as data.
C10_UnhandledSubGivesConfig ==
    \A h \in Handlers :
        /\ (hpc[h] = "done" /\ hreq[h].kind = "config"
                /\ hreq[h].sub \notin {"", "plugins"}) => hcall[h] = <<Missing>>
        /\ (hpc[h] = "runlock" /\ hreq[h].sub \notin HandledSubs(hreq[h].kind)) =>
                hcall[h] = <<JSON(cont[Target(hreq[h])].Config)>>

\* C10 witness: an input was asked for an undocumented sub after a write and
\* answered with its Config.
C10_Witness ==
    \E h \in Handlers :
        /\ hpc[h] = "runlock"
        /\ hreq[h].kind = "input"
        /\ hreq[h].sub = "bogus"
        /\ cont[Target(hreq[h])].Config # ConfigOf(0)
        /\ hcall[h] = <<JSON(cont[Target(hreq[h])].Config)>>

\* The path ends in the module suffix.
EndsSo(p) == Len(p) >= Len(SoSuffix) /\ SubSeq(p, Len(p) - Len(SoSuffix) + 1, Len(p)) = SoSuffix

\* The normalized name the specification gives a declared path.
Norm(p) == IF EndsSo(p) THEN p ELSE p \o SoSuffix

\* The last call of plugin.Open failed.
OpenFailed == Len(opened) > 0 /\ opened[Len(opened)].err # "none"

\* The declared paths among the first n that are not skipped.
NotSkipped(n) == SelectSeq(SubSeq(Plugins, 1, n), LAMBDA p : Norm(p) # SoSuffix)

\* C11: a declared path with and without the suffix normalizes to the same
\* name, the path plus exactly one suffix; a path normalizing to the bare
\* suffix is skipped: no error, no call of plugin.Open, no registry change;
\* every other declared path is opened, in order, under its normalized name
\* when os.Stat found it and under DefaultObjPath joined with the normalized
\* name when os.Stat reported that it does not exist.
C11_PathResolution ==
    /\ [](/\ \A p \in DeclPaths :
                ~EndsSo(p) => /\ ModuleName(p) = p \o SoSuffix
                              /\ ModuleName(p \o SoSuffix) = p \o SoSuffix
          /\ [k \in 1..Len(opened) |-> opened[k].path]
                = NotSkipped(IF OpenFailed THEN li ELSE li - 1)
          /\ \A k \in 1..Len(opened) :
                /\ opened[k].stat = "found" => opened[k].name = Norm(opened[k].path)
                /\ opened[k].stat = "notexist" =>
                      opened[k].name = DefaultObjPath \o <<"/">> \o Norm(opened[k].path))
    /\ [][(ppc = "load" /\ li <= Len(Plugins) /\ Norm(Plugins[li]) = SoSuffix) =>
            /\ li' = li + 1
            /\ UNCHANGED <<ppc, perr, opened, inputs, outputs>>]_vars

\* C11 witness: the bare suffix was declared first and skipped, then f.so,
\* which os.Stat did not find, was opened from the default directory and
\* registered its input.
C11_Witness ==
    /\ Plugins = <<SoSuffix, <<"f", ".", "s", "o">>>>
    /\ li = 3
    /\ perr = "none"
    /\ Len(opened) = 1
    /\ opened[1].stat = "notexist"
    /\ opened[1].name = <<"D", "/", "f", ".", "s", "o">>
    /\ \E k \in 1..Len(inputs) : inputs[k].name = "dynin"

\* C12: when plugin.Open fails, LoadPlugins returns at once the error that
\* wraps the cause and ParseConfigs returns it: the failed call is the last
\* one, the loop stays at its declared path, steps 3 and 4 are never
\* started and every input and output config is still unresolved.
C12_LoadFailureAborts ==
    \A k \in 1..Len(opened) :
        opened[k].err # "none" =>
            /\ k = Len(opened)
            /\ ppc = "done"
            /\ perr = "opening plugin: " \o opened[k].err
            /\ li <= Len(Plugins) /\ Plugins[li] = opened[k].path
            /\ plog = <<"core", "load">>
            /\ inputSync = "" /\ outputSync = ""
            /\ \A j \in 1..Len(inputs) : inputs[j].cfg = "default"
            /\ \A j \in 1..Len(outputs) : outputs[j].cfg = "default"

\* C12 witness: modules g and f were declared; opening g failed, f was
\* never opened and ParseConfigs has returned.
C12_Witness ==
    /\ Plugins = <<<<"g">>, <<"f">>>>
    /\ Len(opened) = 1
    /\ opened[1].err = "not a plugin"
    /\ perr = "opening plugin: not a plugin"
    /\ ppc = "done"
    /\ li = 1

\* The names registered, in registration order.
Names(registry) == [k \in 1..Len(registry) |-> registry[k].name]

\* Every name of the sequence is registered.
Registered(registry, names) ==
    \A j \in 1..Len(names) : \E k \in 1..Len(registry) : registry[k].name = names[j]

\* C13: no config of a plugin is resolved before step 2 has completed; the
\* plugins of every module opened in step 2 are registered, and the
\* registries do not change once step 2 is over, so steps 3 and 4 go over
\* every plugin registered by then; ParseConfigs returns nil only when the
\* config of every registered input and output has been resolved.
C13_LoadedBeforeResolved ==
    /\ [](/\ ppc \in {"core", "load"} =>
                /\ \A k \in 1..Len(inputs) : inputs[k].cfg = "default"
                /\ \A k \in 1..Len(outputs) : outputs[k].cfg = "default"
          /\ \A k \in 1..Len(opened) :
                opened[k].err = "none" =>
                    /\ Registered(inputs, ModuleInputs(opened[k].name))
                    /\ Registered(outputs, ModuleOutputs(opened[k].name))
          /\ (ppc = "done" /\ perr = "none") =>
                /\ \A k \in 1..Len(inputs) : inputs[k].cfg = "resolved"
                /\ \A k \in 1..Len(outputs) : outputs[k].cfg = "resolved")
    /\ [][ppc \notin {"core", "load"} =>
            /\ Names(inputs') = Names(inputs)
            /\ Names(outputs') = Names(outputs)]_vars

\* C13 witness: modules f and g were loaded in step 2 and registered an
\* input and an output; ParseConfigs has returned nil with the configs of
\* both resolved.
C13_Witness ==
    /\ ppc = "done"
    /\ perr = "none"
    /\ Len(opened) = 2
    /\ \E k \in 1..Len(inputs) : inputs[k].name = "dynin" /\ inputs[k].cfg = "resolved"
    /\ \E k \in 1..Len(outputs) : outputs[k].name = "dynout" /\ outputs[k].cfg = "resolved"

\* C14: every counter table is empty until it is written; a table changes
\* only in a step of the writer that holds the container's lock, and then
\* to exactly the table being written; a counters query with the empty key
\* on a registered input answers, under the read lock, exactly the table of
\* the last completed write (the empty table when there was none).
C14_CountersFollowWrites ==
    /\ \A c \in Containers : cont[c].Counter = EmptyMap
    /\ [][\A c \in Containers :
            cont'[c].Counter # cont[c].Counter =>
                /\ wheld[c] /\ wtarget = c
                /\ cont'[c].Counter = CounterOf(wpayload)]_vars
    /\ [](\A h \in Handlers :
            (/\ hpc[h] = "runlock"
             /\ hreq[h].kind = "input"
             /\ hreq[h].sub = "counters"
             /\ hreq[h].val = "") =>
                /\ hcall[h] = <<JSON(cont[Target(hreq[h])].Counter)>>
                /\ ~(wheld[Target(hreq[h])] /\ wtarget = Target(hreq[h])))

\* C14 witness: the write of polls = 3 to input a has completed, and a
\* counters query with the empty key has answered exactly that table.
C14_Witness ==
    \E h \in Handlers :
        /\ hpc[h] = "runlock"
        /\ hreq[h] = [kind |-> "input", name |-> "a", sub |-> "counters", val |-> ""]
        /\ wpc = "idle"
        /\ hcall[h] = <<JSON([k \in {"polls"} |-> 3])>>

AllCfg(registry, cfg) == \A k \in 1..Len(registry) : registry[k].cfg = cfg

\* The loop over the registry stands at entry n: the entries before it are
\* resolved, those after it untouched, and entry n is untouched, or, when
\* the step has failed with err, left by the parse that failed.
InOrder(registry, n, err) ==
    \A k \in 1..Len(registry) :
        /\ k < n => registry[k].cfg = "resolved"
        /\ k > n => registry[k].cfg = "default"
        /\ k = n => registry[k].cfg = CASE err = "none" -> "default"
                                        [] err = "cnfg unmarshal" -> "filefailed"
                                        [] err = "env unmarshal" -> "envfailed"
                                        [] OTHER -> "none"

\* The entries whose config differs between two registries of one length.
Touched(before, after) == {k \in 1..Len(before) : after[k].cfg # before[k].cfg}

\* C16: step 3 holds the input-registry lock from its first to its last
\* statement and resolves the inputs in registration order, one per
\* iteration; at the first failure it returns that error with the later
\* inputs and every output untouched, and ParseConfigs returns it.  Step 4
\* does the same with the outputs under the output-registry lock, after
\* every input has been resolved.
C16_RegistryStepsInOrder ==
    /\ [](/\ ppc \in {"iparse", "iunlock"} =>
                /\ inputSync = "parseInputs" /\ outputSync = ""
                /\ InOrder(inputs, ri, perr)
                /\ AllCfg(outputs, "default")
          /\ ppc \in {"oparse", "ounlock"} =>
                /\ outputSync = "parseOutputs" /\ inputSync = ""
                /\ AllCfg(inputs, "resolved")
                /\ InOrder(outputs, ri, perr)
          /\ (ppc = "done" /\ perr # "none" /\ plog = <<"core", "load", "inputs">>) =>
                /\ ri <= Len(inputs)
                /\ InOrder(inputs, ri, perr)
                /\ AllCfg(outputs, "default")
          /\ (ppc = "done" /\ perr # "none" /\ plog = Steps) =>
                /\ ri <= Len(outputs)
                /\ AllCfg(inputs, "resolved")
                /\ InOrder(outputs, ri, perr))
    /\ [][/\ ppc = "iparse" =>
                /\ Touched(inputs, inputs') \subseteq {ri}
                /\ outputs' = outputs
          /\ ppc = "oparse" =>
                /\ Touched(outputs, outputs') \subseteq {ri}
                /\ inputs' = inputs
          /\ ppc \in {"ilock", "iunlock", "olock", "ounlock", "done"} =>
                /\ inputs' = inputs
                /\ outputs' = outputs]_vars

\* C16 witness: module f registered a third input; step 3 resolved the
\* first input, failed on the environment of the second and returned, and
\* ParseConfigs returned that error with the third input and the outputs
\* untouched.
C16_Witness ==
    /\ ppc = "done"
    /\ perr = "env unmarshal"
    /\ plog = <<"core", "load", "inputs">>
    /\ Len(inputs) = 3
    /\ inputs[1].cfg = "resolved"
    /\ inputs[2].cfg = "envfailed"
    /\ inputs[3].cfg = "default"
    /\ AllCfg(outputs, "default")
    /\ inputSync = ""

\* C17: every request to a registered plugin that has reached its handler
\* eventually holds the container's read lock, and from there eventually
\* has given exactly one response and has released the lock.
C17_RequestCompletes ==
    \A h \in {1, 2} :
        /\ (hpc[h] = "start" /\ Target(hreq[h]) # NoContainer)
                ~> (hpc[h] = "respond" /\ h \in readers[Target(hreq[h])])
        /\ (hpc[h] = "respond")
                ~> (/\ hpc[h] = "done"
                    /\ Len(hcall[h]) = 1
                    /\ \A c \in Containers : h \notin readers[c])

\* C17 witness: a handler waits in RLock for a container that the writer
\* holds in the middle of a write, while the other handler has been served.
C17_Witness ==
    /\ hpc[1] = "rlock"
    /\ wtarget = Target(hreq[1])
    /\ wheld[Target(hreq[1])]
    /\ wpc = "counter"
    /\ ~ENABLED RLock(1)
    /\ hpc[2] = "done"
    /\ Len(hcall[2]) = 1

\* C18: an invocation of handleConfig, handleInput or handleOutput calls
\* nothing that responds before its switch or its lookup miss, and from
\* then until it returns it has made exactly one responding call, either
\* handleJSON or handleMissing; a step never adds more than one call.
C18_ExactlyOneResponse ==
    /\ [](\A h \in Handlers :
            /\ hpc[h] \in {"idle", "start", "rlock", "respond"} => hcall[h] = << >>
            /\ hpc[h] \in {"runlock", "done"} =>
                /\ Len(hcall[h]) = 1
                /\ hcall[h][1].fn \in {"handleJSON", "handleMissing"})
    /\ [][\A h \in Handlers :
            \/ hcall'[h] = hcall[h]
            \/ hcall'[h] = << >>
            \/ hcall[h] = << >> /\ Len(hcall'[h]) = 1]_vars

\* C18 witness: handleInput was asked, for a registered input holding
\* events, for the events of a key it does not hold; it has returned and
\* its one response is handleMissing.
C18_Witness ==
    \E h \in Handlers :
        /\ hpc[h] = "done"
        /\ hreq[h] = [kind |-> "input", name |-> "a", sub |-> "events", val |-> "zz"]
        /\ cont[Target(hreq[h])].Events # EmptyMap
        /\ hcall[h] = <<Missing>>

\* C19: ParseConfigs holds the input-registry lock only inside step 3 and
\* the output-registry lock only inside step 4, so never both and neither
\* while it resolves the core config or loads modules; when it is about to
\* open a module, the load with the module's registrations, which take the
\* registry locks, can go through; and it never waits for one registry lock
\* while holding the other.
C19_RegistryLocksDisjoint ==
    /\ ~(inputSync # "" /\ outputSync # "")
    /\ inputSync # "" => ppc \in {"iparse", "iunlock"}
    /\ outputSync # "" => ppc \in {"oparse", "ounlock"}
    /\ ppc \in {"core", "load"} => (inputSync = "" /\ outputSync = "")
    /\ (ppc = "load" /\ li <= Len(Plugins) /\ ModuleName(Plugins[li]) # SoSuffix) =>
            ENABLED (LoadOne /\ li' = li + 1)
    /\ ppc = "ilock" => (outputSync = "" /\ ENABLED InputsLock)
    /\ ppc = "olock" => (inputSync = "" /\ ENABLED OutputsLock)

\* C19 witness: modules loaded in step 2 registered an input and an output;
\* step 3 is over and step 4 holds the output-registry lock alone.
C19_Witness ==
    /\ ppc = "oparse"
    /\ outputSync = "parseOutputs"
    /\ inputSync = ""
    /\ \E k \in 1..Len(inputs) : inputs[k].name = "dynin"
    /\ \E k \in 1..Len(outputs) : outputs[k].name = "dynout"

==========================================================================
